---------------------------- MODULE Spec2Model ----------------------------
(***************************************************************************)
(* A model of examples/control-pulseoptim-Lindbladian.ipynb: the notebook  *)
(* builds the Lindbladian of a damped qubit and two control generators,    *)
(* calls qutip's cpo.optimize_pulse, prints the result and plots the       *)
(* initial and the optimised pulses.                                       *)
(*                                                                         *)
(* Numbers are exact.  A complex number is a pair <<re, im>> of integers.  *)
(* A Qobj is a record [rows, cols, den, rt, data] that stands for the      *)
(* matrix data / den * (1/sqrt 2)^rt, so that gamma = 0.1 and the          *)
(* Hadamard gate's 1/sqrt 2 are kept without rounding.                     *)
(***************************************************************************)
EXTENDS Integers, Sequences, FiniteSets, TLC

VARIABLES
    pc,       \* the code cell that runs next (1 .. 12), or Done
    error,    \* "" or the exception that stopped the run
    ns,       \* the kernel's namespace: a record of the names bound so far
    ran,      \* how often each code cell has run
    opt,      \* the state of the optimize_pulse call
    files,    \* the amplitude files written, in order
    printed,  \* what the report cell printed
    drawn,    \* the step() calls of the plot cell, in order
    rho,      \* a density operator (2 x 2) the generators are applied to
    applied,  \* which operator was applied to rho last
    outv,     \* the result of that application (a 4 x 1 Qobj)
    dyn_gen   \* the generator combined for the amplitudes of a timeslot

vars == <<pc, error, ns, ran, opt, files, printed, drawn, rho, applied, outv, dyn_gen>>

---------------------------------------------------------------------------
(* Bounds of the model *)

\* entries of the density operators tried: re, im \in 0 .. MaxRho
MaxRho == 1
\* damping rates tried: gamma = k / 10 for k \in 0 .. MaxGamma
MaxGamma == 2

---------------------------------------------------------------------------
(* Complex numbers with integer parts *)

CInt(n) == <<n, 0>>
CAdd(a, b) == <<a[1] + b[1], a[2] + b[2]>>
CSub(a, b) == <<a[1] - b[1], a[2] - b[2]>>
CMul(a, b) == <<a[1] * b[1] - a[2] * b[2], a[1] * b[2] + a[2] * b[1]>>
CConj(a) == <<a[1], 0 - a[2]>>

\* f[0] + ... + f[n-1]
RECURSIVE CSum(_, _)
CSum(f, n) == IF n = 0 THEN CInt(0) ELSE CAdd(CSum(f, n - 1), f[n - 1])

---------------------------------------------------------------------------
(* qutip's Qobj and the primitives the notebook uses *)

\* Qobj(np.array(arr)) for an array of complex entries
QobjC(arr) ==
    [rows |-> Len(arr), cols |-> Len(arr[1]), den |-> 1, rt |-> 0,
     data |-> [i \in 0 .. Len(arr) - 1 |->
                 [j \in 0 .. Len(arr[1]) - 1 |-> arr[i + 1][j + 1]]]]

\* Qobj(np.array(arr)) for an array of integers
Qobj(arr) ==
    QobjC([i \in 1 .. Len(arr) |-> [j \in 1 .. Len(arr[1]) |-> CInt(arr[i][j])]])

sigmax == Qobj(<< <<0, 1>>, <<1, 0>> >>)
sigmay == QobjC(<< <<CInt(0), <<0, -1>> >>, << <<0, 1>>, CInt(0)>> >>)
sigmaz == Qobj(<< <<1, 0>>, <<0, -1>> >>)

identity(n) ==
    [rows |-> n, cols |-> n, den |-> 1, rt |-> 0,
     data |-> [i \in 0 .. n - 1 |-> [j \in 0 .. n - 1 |->
                 IF i = j THEN CInt(1) ELSE CInt(0)]]]

\* hadamard_transform(1): (1/sqrt 2) [[1, 1], [1, -1]]
hadamard_transform1 ==
    [Qobj(<< <<1, 1>>, <<1, -1>> >>) EXCEPT !.rt = 1]

\* (1/sqrt 2)^2 = 1/2
RtDen(r) == IF r >= 2 THEN 2 ELSE 1

\* tensor(A, B): the Kronecker product
tensor(A, B) ==
    [rows |-> A.rows * B.rows, cols |-> A.cols * B.cols,
     den |-> A.den * B.den * RtDen(A.rt + B.rt), rt |-> (A.rt + B.rt) % 2,
     data |-> [i \in 0 .. A.rows * B.rows - 1 |->
                 [j \in 0 .. A.cols * B.cols - 1 |->
                    CMul(A.data[i \div B.rows][j \div B.cols],
                         B.data[i % B.rows][j % B.cols])]]]

\* A.trans()
trans(A) ==
    [rows |-> A.cols, cols |-> A.rows, den |-> A.den, rt |-> A.rt,
     data |-> [i \in 0 .. A.cols - 1 |-> [j \in 0 .. A.rows - 1 |-> A.data[j][i]]]]

\* A.dag()
dag(A) ==
    [rows |-> A.cols, cols |-> A.rows, den |-> A.den, rt |-> A.rt,
     data |-> [i \in 0 .. A.cols - 1 |->
                 [j \in 0 .. A.rows - 1 |-> CConj(A.data[j][i])]]]

\* c * A for a complex number c with integer parts
QScale(c, A) ==
    [A EXCEPT !.data = [i \in 0 .. A.rows - 1 |->
                          [j \in 0 .. A.cols - 1 |-> CMul(c, A.data[i][j])]]]

\* g * A for a rational g = [n, d]
QRat(g, A) == [QScale(CInt(g.n), A) EXCEPT !.den = A.den * g.d]

\* A + B and A - B (both with the same power of 1/sqrt 2)
QAdd(A, B) ==
    [rows |-> A.rows, cols |-> A.cols, den |-> A.den * B.den, rt |-> A.rt,
     data |-> [i \in 0 .. A.rows - 1 |-> [j \in 0 .. A.cols - 1 |->
                 CAdd(CMul(CInt(B.den), A.data[i][j]),
                      CMul(CInt(A.den), B.data[i][j]))]]]

QSub(A, B) == QAdd(A, QScale(CInt(-1), B))

\* A * B: the matrix product
QMul(A, B) ==
    [rows |-> A.rows, cols |-> B.cols,
     den |-> A.den * B.den * RtDen(A.rt + B.rt), rt |-> (A.rt + B.rt) % 2,
     data |-> [i \in 0 .. A.rows - 1 |-> [j \in 0 .. B.cols - 1 |->
                 CSum([k \in 0 .. A.cols - 1 |->
                         CMul(A.data[i][k], B.data[k][j])], A.cols)]]]

\* A == B as matrices, whatever the denominators they are written with
QEq(A, B) ==
    /\ A.rows = B.rows /\ A.cols = B.cols /\ A.rt = B.rt
    /\ \A i \in 0 .. A.rows - 1 : \A j \in 0 .. A.cols - 1 :
          CMul(CInt(B.den), A.data[i][j]) = CMul(CInt(A.den), B.data[i][j])

\* the row vectorisation of a matrix: entry (i, j) goes to row i * cols + j
Vec(A) ==
    [rows |-> A.rows * A.cols, cols |-> 1, den |-> A.den, rt |-> A.rt,
     data |-> [k \in 0 .. A.rows * A.cols - 1 |->
                 [c \in {0} |-> A.data[k \div A.cols][k % A.cols]]]]

---------------------------------------------------------------------------
(* Cell 3: defining the physics *)

Sx == sigmax
Sy == sigmay
Sz == sigmaz
Si == identity(2)

Sd == Qobj(<< <<0, 1>>, <<0, 0>> >>)
Sm == Qobj(<< <<0, 0>>, <<1, 0>> >>)
Sd_m == Qobj(<< <<1, 0>>, <<0, 0>> >>)
Sm_d == Qobj(<< <<0, 0>>, <<0, 1>> >>)

\* gamma = 0.1
gamma == [n |-> 1, d |-> 10]

\* the damping term as a bug would build it: the transpose of Sd forgotten
L0_Ad_NoTrans(g) ==
    QRat(g, QSub(QScale(CInt(2), tensor(Sm, Sd)),
                 QAdd(tensor(Sd_m, Si), tensor(Si, trans(Sd_m)))))

\* the damping term as a bug would build it: the factor 2 of the jump term
\* forgotten
L0_Ad_NoFactor(g) ==
    QRat(g, QSub(tensor(Sm, trans(Sd)),
                 QAdd(tensor(Sd_m, Si), tensor(Si, trans(Sd_m)))))

L0_Ad(g) ==
    QRat(g, QSub(QScale(CInt(2), tensor(Sm, trans(Sd))),
                 QAdd(tensor(Sd_m, Si), tensor(Si, trans(Sd_m)))))

LC_x == QScale(<<0, -1>>, QSub(tensor(Sx, Si), tensor(Si, Sx)))
LC_y == QScale(<<0, -1>>, QSub(tensor(Sy, Si), tensor(Si, trans(Sy))))
LC_z == QScale(<<0, -1>>, QSub(tensor(Sz, Si), tensor(Si, Sz)))

drift(g) == L0_Ad(g)

\* the controls in the other order
ctrls_Swapped == <<LC_x, LC_z>>

\* ctrls[j] of the notebook is ctrls[j + 1] here
ctrls == <<LC_z, LC_x>>
n_ctrls == Len(ctrls)

\* the initial operator with the dimension d of the qubit, not d^2
initial_Dim2 == identity(2)

initial == identity(4)
had_gate == hadamard_transform1

\* the target built from the gate alone, not from its action on rho
target_DP_GateOnly == tensor(had_gate, Si)

target_DP == tensor(had_gate, had_gate)

\* the names cell 3 binds
PhysicsBindings(g) ==
    [Sx |-> Sx, Sy |-> Sy, Sz |-> Sz, Si |-> Si,
     Sd |-> Sd, Sm |-> Sm, Sd_m |-> Sd_m, Sm_d |-> Sm_d,
     gamma |-> g, L0_Ad |-> L0_Ad(g),
     LC_x |-> LC_x, LC_y |-> LC_y, LC_z |-> LC_z,
     drift |-> drift(g), ctrls |-> ctrls, n_ctrls |-> n_ctrls,
     initial |-> initial, had_gate |-> had_gate, target_DP |-> target_DP]

---------------------------------------------------------------------------
(* Cells 4 to 7: the parameters of the run *)

\* Number of time slots
n_ts == 10
\* Time allowed for the evolution
evo_time == 2
\* Fidelity error target, in units of 1e-3
fid_err_targ == 1
\* Maximum iterations for the optimisation algorithm
max_iter == 200
\* Maximum (elapsed) time allowed in seconds
max_wall_time == 30
\* Minimum gradient, in units of 1e-20
min_grad == 1

example_name == "Lindblad"
p_type == "RND"

\* the format as a bug would write it: the pulse type before the timeslots
f_ext_format_TypeFirst(name, nts, ptype) ==
    name \o "_ptype" \o ptype \o "_n_ts" \o ToString(nts) \o ".txt"

\* "{}_n_ts{}_ptype{}.txt".format(example_name, n_ts, p_type)
f_ext_format(name, nts, ptype) ==
    name \o "_n_ts" \o ToString(nts) \o "_ptype" \o ptype \o ".txt"

---------------------------------------------------------------------------
(* The code cells, in the order of the notebook *)

CellImports == 1
CellQutip == 2
CellPhysics == 3
CellTime == 4
CellTermination == 5
CellPulseType == 6
CellFileExt == 7
CellOptimise == 8
CellReport == 9
CellPlot == 10
CellVersions == 11
CellEmpty == 12
Cells == CellImports .. CellEmpty

\* a run that takes the report cell before the optimisation cell
NextCell_ReportFirst(c) ==
    IF c = CellFileExt THEN CellReport
    ELSE IF c = CellReport THEN CellOptimise
    ELSE IF c = CellOptimise THEN CellPlot
    ELSE c + 1

\* the cells run top to bottom (execution_count 1, 2, ..., 11)
NextCell(c) == c + 1

\* past the last cell: the run is over
Done == NextCell(CellEmpty)

\* the names a cell reads that it does not bind itself
Reads(c) ==
    CASE c = CellPhysics ->
           {"sigmax", "sigmay", "sigmaz", "identity", "Qobj", "np", "tensor",
            "hadamard_transform"}
      [] c = CellFileExt -> {"example_name", "n_ts", "p_type"}
      [] c = CellOptimise ->
           {"cpo", "drift", "ctrls", "initial", "target_DP", "n_ts", "evo_time",
            "fid_err_targ", "min_grad", "max_iter", "max_wall_time", "f_ext",
            "p_type", "log_level"}
      [] c = CellReport -> {"result", "datetime"}
      [] c = CellPlot -> {"plt", "n_ctrls", "result", "np"}
      [] OTHER -> {}

\* A cell runs when its turn has come.  One that reads an unbound name stops
\* the run with a NameError and binds nothing.
Bind(c, bindings) ==
    /\ pc = c
    /\ error = ""
    /\ IF Reads(c) \subseteq DOMAIN ns
       THEN /\ ns' = bindings @@ ns
            /\ ran' = [ran EXCEPT ![c] = @ + 1]
            /\ pc' = NextCell(c)
            /\ error' = error
       ELSE /\ error' = "NameError"
            /\ UNCHANGED <<pc, ns, ran>>
    /\ UNCHANGED <<opt, files, printed, drawn, rho, applied, outv, dyn_gen>>

\* the names cell 1 binds
ImportsBindings == [np |-> "module", plt |-> "module", datetime |-> "module"]

\* the names cell 2 binds
QutipBindings ==
    [Qobj |-> "class", identity |-> "function", sigmax |-> "function",
     sigmay |-> "function", sigmaz |-> "function", tensor |-> "function",
     hadamard_transform |-> "function", logging |-> "module",
     logger |-> "logger", log_level |-> "INFO", cpo |-> "module",
     example_name |-> example_name]

RunImports == Bind(CellImports, ImportsBindings)

RunQutip == Bind(CellQutip, QutipBindings)

RunPhysics == Bind(CellPhysics, PhysicsBindings(gamma))

RunTime == Bind(CellTime, [n_ts |-> n_ts, evo_time |-> evo_time])

\* the names cell 5 binds
TerminationBindings ==
    [fid_err_targ |-> fid_err_targ, max_iter |-> max_iter,
     max_wall_time |-> max_wall_time, min_grad |-> min_grad]

RunTermination == Bind(CellTermination, TerminationBindings)

RunPulseType == Bind(CellPulseType, [p_type |-> p_type])

RunFileExt ==
    Bind(CellFileExt,
         [f_ext |-> f_ext_format(ns.example_name, ns.n_ts, ns.p_type)])

---------------------------------------------------------------------------
(* Cell 8: result = cpo.optimize_pulse(...)                                *)
(*                                                                         *)
(* optimize_pulse is qutip's.  The model keeps of it what the notebook     *)
(* hands to it, what the notebook says of it (the conditions that end the  *)
(* search) and what the recorded run shows (the files written, the         *)
(* iteration count, the fields of the result).  The amplitudes, the        *)
(* fidelity error, the gradient norm and the duration of each iteration    *)
(* are free within the bounds below.                                       *)
(***************************************************************************)

\* amplitudes are 0 .. MaxAmp
MaxAmp == 1
\* fidelity errors are 0 .. MaxFidErr, in units of 1e-3
MaxFidErr == 2
\* gradient norms are min_grad .. MaxGrad, in units of 1e-20
MaxGrad == 2
\* an iteration takes 0 or WallStep seconds
WallStep == 16

FidErrs == 0 .. MaxFidErr
Grads == min_grad .. MaxGrad
WallSteps == {0, WallStep}

\* the pulses the search moves through, nts timeslots by nc controls: a flat
\* one and one that differs from timeslot to timeslot and control to control
Pulses(nts, nc) ==
    {[k \in 0 .. nts - 1 |-> [j \in 0 .. nc - 1 |-> (s * (k + j + 1)) % (MaxAmp + 1)]] :
        s \in 0 .. 1}

\* the arguments of the call, read from the namespace n
CallArgs(n) ==
    [drift |-> n.drift, ctrls |-> n.ctrls, initial |-> n.initial,
     target |-> n.target_DP, num_tslots |-> n.n_ts, evo_time |-> n.evo_time,
     fid_err_targ |-> n.fid_err_targ, min_grad |-> n.min_grad,
     max_iter |-> n.max_iter, max_wall_time |-> n.max_wall_time,
     out_file_ext |-> n.f_ext, init_pulse_type |-> n.p_type,
     log_level |-> n.log_level, gen_stats |-> TRUE]

\* The recorded run, with max_iter = 200, ended for the iteration limit after
\* 201 iterations: the search goes on while the count is not above max_iter.
IterLimitReached(o) == o.num_iter > o.args.max_iter

\* the condition that ends the search in state o of the optimiser, "" if none
TerminationReason(o) ==
    IF o.fid_err <= o.args.fid_err_targ THEN "Goal achieved"
    ELSE IF o.grad_norm <= o.args.min_grad THEN "Gradient normal minimum reached"
    ELSE IF o.wall_time > o.args.max_wall_time THEN "Max wall time exceeded"
    ELSE IF IterLimitReached(o)
         THEN "Iteration or fidelity function call limit reached"
    ELSE ""

\* result.time: the n_ts + 1 ends of the timeslots, in units of 1 / n_ts
Time(nts, T) == [k \in 0 .. nts |-> k * T]

\* the result optimize_pulse returns from state o
Result(o) ==
    [initial_amps |-> o.initial_amps, final_amps |-> o.amps,
     time |-> Time(o.args.num_tslots, o.args.evo_time),
     initial_fid_err |-> o.initial_fid_err, fid_err |-> o.fid_err,
     grad_norm_final |-> o.grad_norm,
     termination_reason |-> TerminationReason(o),
     num_iter |-> o.num_iter, wall_time |-> o.wall_time,
     stats |-> [num_iter |-> o.num_iter]]

\* an amplitude file: written unless out_file_ext is None
AmpFile(prefix, o) ==
    IF o.args.out_file_ext = "None" THEN <<>>
    ELSE << [name |-> prefix \o o.args.out_file_ext, amps |-> o.amps,
             num_iter |-> o.num_iter] >>

\* the optimiser as the call sets it up: the initial pulse and its error
OptStart(args, amps, e, g) ==
    [phase |-> "running", args |-> args, amps |-> amps, initial_amps |-> amps,
     fid_err |-> e, initial_fid_err |-> e, grad_norm |-> g,
     num_iter |-> 0, wall_time |-> 0]

\* the call: the arguments are read, the initial pulse is made and written out
RunOptimise ==
    /\ pc = CellOptimise
    /\ error = ""
    /\ opt.phase = "idle"
    /\ IF Reads(CellOptimise) \subseteq DOMAIN ns
       THEN /\ \E amps \in Pulses(ns.n_ts, Len(ns.ctrls)), e \in FidErrs, g \in Grads :
                 /\ opt' = OptStart(CallArgs(ns), amps, e, g)
                 /\ files' = files \o AmpFile("ctrl_amps_initial_", opt')
            /\ ran' = [ran EXCEPT ![CellOptimise] = @ + 1]
            /\ error' = error
       ELSE /\ error' = "NameError"
            /\ UNCHANGED <<opt, files, ran>>
    /\ UNCHANGED <<pc, ns, printed, drawn, rho, applied, outv, dyn_gen>>

\* one iteration of the search: new amplitudes, their error and gradient
OptIter ==
    /\ pc = CellOptimise
    /\ error = ""
    /\ opt.phase = "running"
    /\ TerminationReason(opt) = ""
    /\ \E amps \in Pulses(opt.args.num_tslots, Len(opt.args.ctrls)),
          e \in FidErrs, g \in Grads, dt \in WallSteps :
          opt' = [opt EXCEPT !.amps = amps, !.fid_err = e, !.grad_norm = g,
                             !.num_iter = @ + 1, !.wall_time = @ + dt]
    /\ UNCHANGED <<pc, error, ns, ran, files, printed, drawn, rho, applied, outv, dyn_gen>>

\* the call's value bound to a name the notebook has in use already
ReturnBindings_Initial(o) == [initial |-> Result(o)]

\* result = cpo.optimize_pulse(...): the one name the cell binds
ReturnBindings(o) == [result |-> Result(o)]

\* the search has ended: the final pulse is written out and the result bound
OptReturn ==
    /\ pc = CellOptimise
    /\ error = ""
    /\ opt.phase = "running"
    /\ TerminationReason(opt) # ""
    /\ opt' = [opt EXCEPT !.phase = "returned"]
    /\ files' = files \o AmpFile("ctrl_amps_final_", opt)
    /\ ns' = ReturnBindings(opt) @@ ns
    /\ pc' = NextCell(CellOptimise)
    /\ UNCHANGED <<error, ran, printed, drawn, rho, applied, outv, dyn_gen>>

---------------------------------------------------------------------------
(* Cell 9: report the results *)

\* what the cell prints of the result r
Report(r) ==
    << [line |-> "Number of iterations", value |-> r.stats.num_iter],
       [line |-> "Initial fidelity error", value |-> r.initial_fid_err],
       [line |-> "Final fidelity error", value |-> r.fid_err],
       [line |-> "Final gradient normal", value |-> r.grad_norm_final],
       [line |-> "Terminated due to", value |-> r.termination_reason],
       [line |-> "Number of iterations", value |-> r.num_iter],
       [line |-> "Completed in", value |-> r.wall_time] >>

RunReport ==
    /\ pc = CellReport
    /\ error = ""
    /\ IF Reads(CellReport) \subseteq DOMAIN ns
       THEN /\ printed' = printed \o Report(ns.result)
            /\ ran' = [ran EXCEPT ![CellReport] = @ + 1]
            /\ pc' = NextCell(CellReport)
            /\ error' = error
       ELSE /\ error' = "NameError"
            /\ UNCHANGED <<pc, ran, printed>>
    /\ UNCHANGED <<ns, opt, files, drawn, rho, applied, outv, dyn_gen>>

---------------------------------------------------------------------------
(* Cell 10: plot the initial and final amplitudes *)

\* the number of rows of an array
NumRows(amps) == Cardinality(DOMAIN amps)

\* amps[:, j]
Column(amps, j) == [k \in 0 .. NumRows(amps) - 1 |-> amps[k][j]]

\* np.hstack((col, last)): col followed by the one value last
hstack(col, last) ==
    [k \in 0 .. NumRows(col) |-> IF k < NumRows(col) THEN col[k] ELSE last]

\* a series that ends with the amplitude of the first timeslot
StepSeries_First(amps, j) == hstack(Column(amps, j), amps[0][j])

\* np.hstack((amps[:, j], amps[-1, j]))
StepSeries(amps, j) == hstack(Column(amps, j), amps[NumRows(amps) - 1][j])

\* the loop as a bug would write it: the last control left out
StepCalls_SkipLast(ax, time, amps, nc) ==
    [i \in 1 .. nc - 1 |->
       [ax |-> ax, j |-> i - 1, x |-> time, y |-> StepSeries(amps, i - 1),
        where |-> "post"]]

\* for j in range(nc): ax.step(time, series of amps for j, where='post')
StepCalls(ax, time, amps, nc) ==
    [i \in 1 .. nc |->
       [ax |-> ax, j |-> i - 1, x |-> time, y |-> StepSeries(amps, i - 1),
        where |-> "post"]]

\* The value step() draws over [x[k], x[k+1]): with where='post' the one at
\* the left end of the interval, with where='pre' the one at its right end.
DrawnOver(call, k) ==
    IF call.where = "post" THEN call.y[k] ELSE call.y[k + 1]

\* fig1.add_subplot(nrows, ncols, index) with its title
add_subplot(nrows, ncols, index, title) ==
    [subplot |-> <<nrows, ncols, index>>, title |-> title]

\* the names the cell binds: the figure, the axes and the loop variable j,
\* which keeps its last value
PlotBindings(nc) ==
    (IF nc > 0 THEN [j |-> nc - 1] ELSE <<>>)
       @@ [fig1 |-> "figure",
           ax1 |-> add_subplot(2, 1, 1, "Initial control amps"),
           ax2 |-> add_subplot(2, 1, 2, "Optimised Control Sequences")]

RunPlot ==
    /\ pc = CellPlot
    /\ error = ""
    /\ IF Reads(CellPlot) \subseteq DOMAIN ns
       THEN /\ drawn' = drawn
                   \o StepCalls("ax1", ns.result.time, ns.result.initial_amps,
                                ns.n_ctrls)
                   \o StepCalls("ax2", ns.result.time, ns.result.final_amps,
                                ns.n_ctrls)
            /\ ns' = PlotBindings(ns.n_ctrls) @@ ns
            /\ ran' = [ran EXCEPT ![CellPlot] = @ + 1]
            /\ pc' = NextCell(CellPlot)
            /\ error' = error
       ELSE /\ error' = "NameError"
            /\ UNCHANGED <<pc, ns, ran, drawn>>
    /\ UNCHANGED <<opt, files, printed, rho, applied, outv, dyn_gen>>

---------------------------------------------------------------------------
(* Cells 11 and 12: the version table, and an empty cell *)

RunVersions == Bind(CellVersions, [version_table |-> "function"])

RunEmpty == Bind(CellEmpty, <<>>)

---------------------------------------------------------------------------
(* A run of the notebook *)

NoRho == Qobj(<< <<0, 0>>, <<0, 0>> >>)

\* no generator has been combined yet
NoGen == [amps |-> <<>>]

Init ==
    /\ pc = CellImports
    /\ error = ""
    /\ ns = <<>>
    /\ ran = [c \in Cells |-> 0]
    /\ opt = [phase |-> "idle"]
    /\ files = <<>>
    /\ printed = <<>>
    /\ drawn = <<>>
    /\ rho = NoRho
    /\ applied = "none"
    /\ outv = Vec(NoRho)
    /\ dyn_gen = NoGen

Next ==
    \/ RunImports
    \/ RunQutip
    \/ RunPhysics
    \/ RunTime
    \/ RunTermination
    \/ RunPulseType
    \/ RunFileExt
    \/ RunOptimise
    \/ OptIter
    \/ OptReturn
    \/ RunReport
    \/ RunPlot
    \/ RunVersions
    \/ RunEmpty

Spec == Init /\ [][Next]_vars

---------------------------------------------------------------------------
(* The operators of cell 3 at work.  The notebook represents the           *)
(* Lindbladian "as a d^2 x d^2 dimensional matrix by vectorizing the       *)
(* density operator (row vectorization)": each operator handed to the      *)
(* optimiser acts on Vec(rho).  Here the damping rate, which "the user can *)
(* experiment with", and rho are drawn from bounded sets and each operator *)
(* the physics cell has bound is applied to Vec(rho).                      *)
(***************************************************************************)

RhoEntries == {<<a, b>> : a \in 0 .. MaxRho, b \in 0 .. MaxRho}

Rhos ==
    {[rows |-> 2, cols |-> 2, den |-> 1, rt |-> 0, data |-> d] :
        d \in [0 .. 1 -> [0 .. 1 -> RhoEntries]]}

Gammas == {[n |-> k, d |-> 10] : k \in 0 .. MaxGamma}

\* the namespace once cells 1 to 3 have run with damping rate g
NsPhysics(g) == PhysicsBindings(g) @@ QutipBindings @@ ImportsBindings

InitOps ==
    /\ pc = CellTime
    /\ error = ""
    /\ \E g \in Gammas : ns = NsPhysics(g)
    /\ ran = [c \in Cells |-> IF c < CellTime THEN 1 ELSE 0]
    /\ opt = [phase |-> "idle"]
    /\ files = <<>>
    /\ printed = <<>>
    /\ drawn = <<>>
    /\ rho \in Rhos
    /\ applied = <<"none", 0>>
    /\ outv = Vec(rho)
    /\ dyn_gen = NoGen

Apply(name, j, op) ==
    /\ applied' = <<name, j>>
    /\ outv' = QMul(op, Vec(rho))
    /\ UNCHANGED <<pc, error, ns, ran, opt, files, printed, drawn, rho, dyn_gen>>

ApplyDrift == Apply("drift", 0, ns.drift)

ApplyCtrl == \E j \in 0 .. ns.n_ctrls - 1 : Apply("ctrls", j, ns.ctrls[j + 1])

ApplyInitial == Apply("initial", 0, ns.initial)

ApplyTarget == Apply("target_DP", 0, ns.target_DP)

NextOps == ApplyDrift \/ ApplyCtrl \/ ApplyInitial \/ ApplyTarget

SpecOps == InitOps /\ [][NextOps]_vars

\* the matrix unit with its one 1 at row i, column j
Unit(i, j) ==
    [rows |-> 2, cols |-> 2, den |-> 1, rt |-> 0,
     data |-> [a \in 0 .. 1 |-> [b \in 0 .. 1 |->
                 IF a = i /\ b = j THEN CInt(1) ELSE CInt(0)]]]

\* gamma * (2 a r a_dag - a_dag a r - r a_dag a) for the damping rate g
Damping(g, a, a_dag, a_dag_a, r) ==
    QRat(g, QSub(QScale(CInt(2), QMul(QMul(a, r), a_dag)),
                 QAdd(QMul(a_dag_a, r), QMul(r, a_dag_a))))

\* the drift divided by gamma, as the claim writes it out
M_Ad ==
    Qobj(<< <<-2, 0, 0, 0>>, <<0, -1, 0, 0>>, <<0, 0, -1, 0>>, <<2, 0, 0, 0>> >>)

\* the matrix logged as 'Drift dynamics generator'
LoggedDrift ==
    [Qobj(<< <<-2, 0, 0, 0>>, <<0, -1, 0, 0>>, <<0, 0, -1, 0>>, <<2, 0, 0, 0>> >>)
        EXCEPT !.den = 10]

(* C8: the drift is the Lindbladian of the amplitude damping channel in row
   vectorisation.  With a = Sm, a_dag = Sd and a_dag * a = Sd_m, the drift
   applied to Vec(rho) is the row vectorisation of
   gamma * (2 a rho a_dag - a_dag a rho - rho a_dag a), for every rho tried
   (the four matrix units among them); the drift is gamma * M with M of
   diagonal (-2, -1, -1, 0) and a 2 at row 3, column 0; and for gamma = 0.1 it
   is the matrix logged as 'Drift dynamics generator'. *)
C8_DriftIsDampingLindbladian ==
    /\ QEq(dag(Sm), Sd) /\ QEq(QMul(Sd, Sm), Sd_m)
    /\ QEq(ns.L0_Ad, QRat(ns.gamma, M_Ad))
    /\ ns.drift = ns.L0_Ad
    /\ ns.gamma = gamma => QEq(ns.drift, LoggedDrift)
    /\ applied = <<"drift", 0>> =>
          QEq(outv, Vec(Damping(ns.gamma, Sm, Sd, Sd_m, rho)))

\* the drift has been applied to the matrix unit |0><0|, with gamma = 0.1:
\* the result is (-0.2, 0, 0, 0.2)
C8_Witness ==
    /\ applied = <<"drift", 0>>
    /\ rho = Unit(0, 0)
    /\ ns.gamma = gamma
    /\ outv.data[0][0] = CInt(-2) /\ outv.data[3][0] = CInt(2) /\ outv.den = 10

\* -i * (S r - r S)
Coherent(S, r) == QScale(<<0, -1>>, QSub(QMul(S, r), QMul(r, S)))

\* diag(0, -2i, 2i, 0), logged as 'Control 1 dynamics generator'
LoggedCtrl1 ==
    QobjC(<< <<CInt(0), CInt(0), CInt(0), CInt(0)>>,
             <<CInt(0), <<0, -2>>, CInt(0), CInt(0)>>,
             <<CInt(0), CInt(0), <<0, 2>>, CInt(0)>>,
             <<CInt(0), CInt(0), CInt(0), CInt(0)>> >>)

\* the matrix logged as 'Control 2 dynamics generator'
LoggedCtrl2 ==
    QobjC(<< <<CInt(0), <<0, 1>>, <<0, -1>>, CInt(0)>>,
             << <<0, 1>>, CInt(0), CInt(0), <<0, -1>> >>,
             << <<0, -1>>, CInt(0), CInt(0), <<0, 1>> >>,
             <<CInt(0), <<0, -1>>, <<0, 1>>, CInt(0)>> >>)

(* C9: the two controls are the coherent generators of sigma-Z and sigma-X in
   row vectorisation, in that order: ctrls[0] = LC_z = diag(0, -2i, 2i, 0),
   ctrls[1] = LC_x = the matrix logged as 'Control 2 dynamics generator', and
   control j applied to Vec(rho) is the row vectorisation of
   -i * (S rho - rho S) with S = Sz for j = 0 and S = Sx for j = 1. *)
C9_CtrlsAreCoherentZX ==
    /\ Len(ns.ctrls) = 2
    /\ ns.ctrls[1] = ns.LC_z /\ ns.ctrls[2] = ns.LC_x
    /\ QEq(ns.ctrls[1], LoggedCtrl1) /\ QEq(ns.ctrls[2], LoggedCtrl2)
    /\ applied = <<"ctrls", 0>> => QEq(outv, Vec(Coherent(sigmaz, rho)))
    /\ applied = <<"ctrls", 1>> => QEq(outv, Vec(Coherent(sigmax, rho)))

\* the second control has been applied to the matrix unit |0><0|: the result
\* is (0, i, -i, 0), which tells sigma-X from sigma-Z
C9_Witness ==
    /\ applied = <<"ctrls", 1>>
    /\ rho = Unit(0, 0)
    /\ outv.data[1][0] = <<0, 1>> /\ outv.data[2][0] = <<0, -1>>

\* the Hadamard matrix: (1/sqrt 2) [[1, 1], [1, -1]]
Hadamard ==
    [rows |-> 2, cols |-> 2, den |-> 1, rt |-> 1,
     data |-> [a \in 0 .. 1 |-> [b \in 0 .. 1 |->
                 IF a = 1 /\ b = 1 THEN CInt(-1) ELSE CInt(1)]]]

\* twice the matrix logged as 'Target state / operator'
LoggedTargetTwice ==
    Qobj(<< <<1, 1, 1, 1>>, <<1, -1, 1, -1>>, <<1, 1, -1, -1>>, <<1, -1, -1, 1>> >>)

\* the matrix logged as 'Initial state / operator'
LoggedInitial ==
    Qobj(<< <<1, 0, 0, 0>>, <<0, 1, 0, 0>>, <<0, 0, 1, 0>>, <<0, 0, 0, 1>> >>)

(* C10: the target is the Hadamard gate acting on the density operator:
   target_DP applied to Vec(rho) is the row vectorisation of H rho H_dagger;
   2 * target_DP is the matrix of +1/-1 logged as 'Target state / operator';
   and the evolution starts from the 4 x 4 identity, which leaves Vec(rho) as
   it is. *)
C10_TargetIsHadamardOnRho ==
    /\ QEq(QScale(CInt(2), ns.target_DP), LoggedTargetTwice)
    /\ QEq(ns.initial, LoggedInitial)
    /\ applied = <<"target_DP", 0>> =>
          QEq(outv, Vec(QMul(QMul(Hadamard, rho), dag(Hadamard))))
    /\ applied = <<"initial", 0>> => QEq(outv, Vec(rho))

\* the target has been applied to the matrix unit |0><1|: H |0><1| H_dagger
\* is [[1, -1], [1, -1]] / 2
C10_Witness ==
    /\ applied = <<"target_DP", 0>>
    /\ rho = Unit(0, 1)
    /\ outv.den = 2
    /\ outv.data = [k \in 0 .. 3 |-> [c \in {0} |-> IF k % 2 = 1 THEN CInt(-1) ELSE CInt(1)]]

---------------------------------------------------------------------------
(* The run as a whole *)

\* what optimize_pulse is called with: the operators, n_ts, evo_time, the
\* termination thresholds, p_type and f_ext
ArgNames ==
    {"drift", "ctrls", "initial", "target_DP", "n_ts", "evo_time",
     "fid_err_targ", "min_grad", "max_iter", "max_wall_time", "p_type", "f_ext"}

(* C1: a run performs its four phases in one fixed order, each once: the
   operators are built, optimize_pulse is called, the statistics and summary
   are printed, the pulses are plotted.  optimize_pulse is called once, never
   before all its arguments are bound (no cell stops with a NameError), and
   neither the report nor the plot starts before optimize_pulse has returned
   its result. *)
C1_PhasesInOrderOnce ==
    /\ error = ""
    /\ \A c \in Cells : ran[c] <= 1
    /\ opt.phase = "idle" <=> ran[CellOptimise] = 0
    /\ ran[CellOptimise] = 1 => ran[CellPhysics] = 1 /\ ArgNames \subseteq DOMAIN ns
    /\ ran[CellReport] = 1 =>
          ran[CellOptimise] = 1 /\ opt.phase = "returned" /\ "result" \in DOMAIN ns
    /\ ran[CellPlot] = 1 => ran[CellReport] = 1
    /\ printed # <<>> <=> ran[CellReport] = 1
    /\ drawn # <<>> <=> ran[CellPlot] = 1
    /\ pc = Done =>
          \A c \in {CellPhysics, CellOptimise, CellReport, CellPlot} : ran[c] = 1

\* the run is over: the four phases have run, a result was reported and drawn
C1_Witness ==
    /\ pc = Done
    /\ ran[CellPhysics] = 1 /\ ran[CellOptimise] = 1
    /\ ran[CellReport] = 1 /\ ran[CellPlot] = 1
    /\ opt.phase = "returned"
    /\ Len(printed) > 0 /\ Len(drawn) > 0

(* C4: max_iter is the maximum number of iterations: the number of iterations
   reported (result.num_iter, and the 'Number of iterations' lines of the
   report) never exceeds max_iter. *)
C4_NumIterAtMostMaxIter ==
    /\ "result" \in DOMAIN ns =>
          /\ ns.result.num_iter <= ns.max_iter
          /\ ns.result.stats.num_iter <= ns.max_iter
    /\ \A i \in 1 .. Len(printed) :
          printed[i].line = "Number of iterations" => printed[i].value <= ns.max_iter

\* the names whose values the search and the later cells are to leave alone
FixedNames ==
    {"drift", "ctrls", "initial", "target_DP", "n_ts", "evo_time",
     "fid_err_targ", "max_iter", "max_wall_time", "min_grad"}

\* a step that leaves every bound name of S as it is
Keeps(S) == \A name \in S \cap DOMAIN ns : name \in DOMAIN ns' /\ ns'[name] = ns[name]

(* C6: the drift and control generators are fixed during the search.  No step
   of the run changes drift, ctrls (its elements and their order), initial,
   target_DP, n_ts, evo_time or a termination threshold once it is bound; an
   optimiser step changes nothing of what the optimiser was called with, and
   what it was called with are the notebook's values; the report and the plot
   change none of these and not the result. *)
C6_GeneratorsFixed ==
    [][/\ Keeps(FixedNames)
       /\ Keeps({"result"})
       /\ opt.phase = "running" =>
             /\ opt'.args = opt.args
             /\ opt.args = CallArgs(ns)
             /\ opt'.initial_amps = opt.initial_amps]_vars

\* the search has made iterations that changed the amplitudes, has returned,
\* and the report and the plot have run
C6_Witness ==
    /\ ran[CellPlot] = 1
    /\ opt.phase = "returned"
    /\ ns.result.num_iter > 1
    /\ ns.result.final_amps # ns.result.initial_amps
    /\ ns.drift = L0_Ad(gamma) /\ ns.ctrls = <<LC_z, LC_x>>

\* a condition that ends the search holds of the optimiser's state o, as the
\* termination cell names them: the fidelity error target, the minimum
\* gradient, the maximum number of iterations, the maximum wall time
ConditionDetected(o) ==
    \/ o.fid_err <= o.args.fid_err_targ
    \/ o.grad_norm <= o.args.min_grad
    \/ o.num_iter >= o.args.max_iter
    \/ o.wall_time > o.args.max_wall_time

(* C14: the optimisation stops as soon as a termination condition is
   detected.  Once the fidelity error is at most fid_err_targ, or the
   gradient norm at most min_grad, or max_iter iterations are made, or the
   wall time exceeds max_wall_time, no further iteration is started and the
   amplitudes are not updated again, and result.final_amps are the
   amplitudes of the state in which the condition was detected. *)
C14_StopsAtFirstCondition ==
    [][(opt.phase = "running" /\ ConditionDetected(opt)) =>
          /\ opt'.num_iter = opt.num_iter
          /\ opt'.amps = opt.amps
          /\ opt'.phase = "returned" => ns'.result.final_amps = opt.amps]_vars

---------------------------------------------------------------------------
(* The plot cell on its own: the number of timeslots, which "the user can  *)
(* experiment with", and the amplitudes of the result are drawn from       *)
(* bounded sets, and the cell runs on them.                                *)
(***************************************************************************)

\* numbers of timeslots tried: 1 .. MaxNTs
MaxNTs == 3

\* every array of amplitudes of nts timeslots by nc controls
AllPulses(nts, nc) == [0 .. nts - 1 -> [0 .. nc - 1 -> 0 .. MaxAmp]]

\* amps with s added to every amplitude (modulo the number of levels)
Shifted(amps, s) ==
    [k \in DOMAIN amps |-> [j \in DOMAIN amps[k] |-> (amps[k][j] + s) % (MaxAmp + 1)]]

\* the namespace once cells 1 to 7 have run with damping rate g and nts timeslots
NsParams(g, nts) ==
    [f_ext |-> f_ext_format(example_name, nts, p_type), p_type |-> p_type]
       @@ TerminationBindings @@ [n_ts |-> nts, evo_time |-> evo_time]
       @@ NsPhysics(g)

\* the optimiser after one iteration that took the pulse from ia to fa and
\* met the fidelity target
OptAfterOne(n, ia, fa) ==
    [OptStart(CallArgs(n), ia, MaxFidErr, MaxGrad) EXCEPT
        !.phase = "returned", !.amps = fa, !.fid_err = 0, !.num_iter = 1]

InitPlot ==
    /\ pc = CellPlot
    /\ error = ""
    /\ \E nts \in 1 .. MaxNTs :
         \E ia \in AllPulses(nts, n_ctrls), s \in 0 .. MaxAmp :
            /\ opt = OptAfterOne(NsParams(gamma, nts), ia, Shifted(ia, s))
            /\ ns = ReturnBindings(opt) @@ NsParams(gamma, nts)
            /\ files = AmpFile("ctrl_amps_initial_", [opt EXCEPT !.amps = ia, !.num_iter = 0])
                          \o AmpFile("ctrl_amps_final_", opt)
    /\ ran = [c \in Cells |-> IF c < CellPlot THEN 1 ELSE 0]
    /\ printed = Report(ns.result)
    /\ drawn = <<>>
    /\ rho = NoRho
    /\ applied = <<"none", 0>>
    /\ outv = Vec(NoRho)
    /\ dyn_gen = NoGen

NextPlot == RunPlot

SpecPlot == InitPlot /\ [][NextPlot]_vars

\* the amplitudes a call of step() is to show
AmpsOf(call) ==
    IF call.ax = "ax1" THEN ns.result.initial_amps ELSE ns.result.final_amps

(* C7: each control amplitude is held constant over its timeslot in what is
   plotted.  For every control j, and for the initial and the final
   amplitudes, the series passed to step() has n_ts + 1 values, as many as
   result.time has points; its k-th value for k < n_ts is amps[k, j], its last
   value repeats amps[n_ts - 1, j], and with where='post' the value drawn over
   the k-th timeslot is amps[k, j]. *)
C7_HeldConstantOverTimeslot ==
    /\ ran[CellPlot] = 1 =>
          \A j \in 0 .. ns.n_ctrls - 1 : \A ax \in {"ax1", "ax2"} :
             \E i \in 1 .. Len(drawn) : drawn[i].ax = ax /\ drawn[i].j = j
    /\ \A i \in 1 .. Len(drawn) :
          LET call == drawn[i]
              amps == AmpsOf(call)
              N == ns.n_ts
          IN  /\ DOMAIN call.y = 0 .. N
              /\ DOMAIN call.x = 0 .. N
              /\ call.x = ns.result.time
              /\ \A k \in 0 .. N - 1 :
                    call.y[k] = amps[k][call.j] /\ DrawnOver(call, k) = amps[k][call.j]
              /\ call.y[N] = amps[N - 1][call.j]

\* the plot has run on three timeslots, with final amplitudes that differ from
\* the initial ones and a last timeslot that differs from the first
C7_Witness ==
    /\ ran[CellPlot] = 1
    /\ ns.n_ts = 3
    /\ Len(drawn) = 4
    /\ ns.result.final_amps # ns.result.initial_amps
    /\ ns.result.final_amps[2][0] # ns.result.final_amps[0][0]
    /\ drawn[3].y[3] = ns.result.final_amps[2][0]

(* C12: the plot draws every control exactly once in each subplot.  With
   n_ctrls = len(ctrls) = 2, for every j in 0 .. n_ctrls - 1 there is exactly
   one step() call for control j in the first subplot, showing the initial
   amplitudes of control j, and exactly one in the second subplot, showing
   its final amplitudes; there is no other call, so that no control is
   skipped or drawn twice, and neither pulse is drawn in the other's
   subplot. *)
C12_EachControlOncePerSubplot ==
    /\ ns.n_ctrls = Len(ns.ctrls)
    /\ ns.n_ctrls = 2
    /\ ran[CellPlot] = 0 => drawn = <<>>
    /\ ran[CellPlot] = 1 =>
          /\ ns.ax1.subplot = <<2, 1, 1>>
          /\ ns.ax2.subplot = <<2, 1, 2>>
          /\ \A j \in 0 .. ns.n_ctrls - 1 : \A ax \in {"ax1", "ax2"} :
                Cardinality({i \in 1 .. Len(drawn) :
                                drawn[i].ax = ax /\ drawn[i].j = j}) = 1
          /\ Len(drawn) = 2 * ns.n_ctrls
          /\ \A i \in 1 .. Len(drawn) :
                LET call == drawn[i]
                    shown == [k \in 0 .. ns.n_ts - 1 |-> call.y[k]]
                IN  /\ call.j \in 0 .. ns.n_ctrls - 1
                    /\ call.ax = "ax1" =>
                          shown = Column(ns.result.initial_amps, call.j)
                    /\ call.ax = "ax2" =>
                          shown = Column(ns.result.final_amps, call.j)
                    /\ call.ax \in {"ax1", "ax2"}

\* the plot has run on a result whose two controls differ, in the initial and
\* in the final pulse, and whose final pulse differs from the initial one
C12_Witness ==
    /\ ran[CellPlot] = 1
    /\ ns.n_ts = 2
    /\ Len(drawn) = 4
    /\ drawn[2].ax = "ax1" /\ drawn[2].j = 1
    /\ drawn[4].ax = "ax2" /\ drawn[4].j = 1
    /\ Column(ns.result.initial_amps, 0) # Column(ns.result.initial_amps, 1)
    /\ Column(ns.result.final_amps, 0) # Column(ns.result.final_amps, 1)
    /\ Column(ns.result.final_amps, 1) # Column(ns.result.initial_amps, 1)

---------------------------------------------------------------------------
(* The call of optimize_pulse on its own, with the file extension as the   *)
(* notebook sets it and with the extension "Set to None to suppress output *)
(* files".  None is written "None" here.                                   *)
(***************************************************************************)

\* the values of f_ext: the one of cell 7, and None
FileExts(name, nts, ptype) == {f_ext_format(name, nts, ptype), "None"}

InitFiles ==
    /\ pc = CellOptimise
    /\ error = ""
    /\ \E fx \in FileExts(example_name, n_ts, p_type) :
          ns = [f_ext |-> fx] @@ NsParams(gamma, n_ts)
    /\ ran = [c \in Cells |-> IF c < CellOptimise THEN 1 ELSE 0]
    /\ opt = [phase |-> "idle"]
    /\ files = <<>>
    /\ printed = <<>>
    /\ drawn = <<>>
    /\ rho = NoRho
    /\ applied = <<"none", 0>>
    /\ outv = Vec(NoRho)
    /\ dyn_gen = NoGen

NextFiles == RunOptimise \/ OptIter \/ OptReturn

SpecFiles == InitFiles /\ [][NextFiles]_vars

(* C13: the amplitude files follow f_ext.  With the f_ext of the notebook,
   'Lindblad_n_ts10_ptypeRND.txt', the initial amplitudes are in the file
   'ctrl_amps_initial_' + f_ext before the first iteration of the search and
   it is the only file while the search runs; the final amplitudes are
   written to 'ctrl_amps_final_' + f_ext only once the search has ended, and
   they are the amplitudes of the result.  With f_ext None no amplitude file
   is written at any point. *)
C13_FilesFollowFExt ==
    /\ ns.f_ext = "None" => files = <<>>
    /\ ns.f_ext # "None" =>
          /\ ns.f_ext = "Lindblad_n_ts10_ptypeRND.txt"
          /\ opt.phase = "idle" => files = <<>>
          /\ opt.phase # "idle" =>
                /\ Len(files) >= 1
                /\ files[1].name = "ctrl_amps_initial_Lindblad_n_ts10_ptypeRND.txt"
                /\ files[1].num_iter = 0
                /\ files[1].amps = opt.initial_amps
          /\ opt.phase = "running" => Len(files) = 1
          /\ opt.phase = "returned" =>
                /\ Len(files) = 2
                /\ files[2].name = "ctrl_amps_final_Lindblad_n_ts10_ptypeRND.txt"
                /\ files[2].amps = ns.result.final_amps
                /\ files[2].num_iter = ns.result.num_iter
                /\ ns.result.termination_reason # ""

\* a search that made several iterations has ended and both files are
\* written, with different amplitudes
C13_Witness ==
    /\ opt.phase = "returned"
    /\ ns.f_ext = "Lindblad_n_ts10_ptypeRND.txt"
    /\ Len(files) = 2
    /\ ns.result.num_iter > 1
    /\ files[2].amps # files[1].amps

\* with f_ext None a search that made several iterations has ended
C13_NoneReturned ==
    /\ opt.phase = "returned"
    /\ ns.f_ext = "None"
    /\ ns.result.num_iter > 1

---------------------------------------------------------------------------
(* The generator of a timeslot.  The optimiser evolves the system with      *)
(* "expm(combined_dynamics*dt)": in a timeslot with the amplitudes u_z and  *)
(* u_x the dynamics are generated by drift + u_z * ctrls[0] + u_x *         *)
(* ctrls[1].  Here the damping rate and the amplitudes are drawn from       *)
(* bounded sets, and the amplitudes are updated any number of times.        *)
(***************************************************************************)

\* amplitudes tried: the integers in -MaxU .. MaxU
MaxU == 3

AmpValues == (0 - MaxU) .. MaxU

\* dg + u[1] * cs[1] + ... + u[n] * cs[n]
RECURSIVE AddCtrls(_, _, _, _)
AddCtrls(dg, cs, u, n) ==
    IF n = 0 THEN dg
    ELSE QAdd(AddCtrls(dg, cs, u, n - 1), QScale(CInt(u[n]), cs[n]))

\* the combined dynamics generator for the amplitudes u of one timeslot
combine_dyn_gen(dr, cs, u) == AddCtrls(dr, cs, u, Len(cs))

\* the generator of a timeslot and its action on the operator the evolution
\* starts from
DynGen(n, u) ==
    [amps |-> u,
     G |-> combine_dyn_gen(n.drift, n.ctrls, u),
     evo |-> QMul(combine_dyn_gen(n.drift, n.ctrls, u), n.initial)]

InitGen ==
    /\ pc = CellTime
    /\ error = ""
    /\ \E g \in Gammas : ns = NsPhysics(g)
    /\ ran = [c \in Cells |-> IF c < CellTime THEN 1 ELSE 0]
    /\ opt = [phase |-> "idle"]
    /\ files = <<>>
    /\ printed = <<>>
    /\ drawn = <<>>
    /\ rho = NoRho
    /\ applied = <<"none", 0>>
    /\ outv = Vec(NoRho)
    /\ dyn_gen = NoGen

UpdateAmps ==
    /\ \E u_z \in AmpValues, u_x \in AmpValues :
          dyn_gen' = DynGen(ns, <<u_z, u_x>>)
    /\ UNCHANGED <<pc, error, ns, ran, opt, files, printed, drawn, rho,
                   applied, outv>>

NextGen == UpdateAmps

SpecGen == InitGen /\ [][NextGen]_vars

\* the shape of a Qobj: that of its array of entries, which is the one it
\* declares
Shape(A) ==
    IF /\ DOMAIN A.data = 0 .. A.rows - 1
       /\ \A i \in DOMAIN A.data : DOMAIN A.data[i] = 0 .. A.cols - 1
    THEN <<A.rows, A.cols>>
    ELSE <<-1, -1>>

(* C11: every operator handed to optimize_pulse is a d^2 x d^2 matrix, with
   d = 2 for the qubit: drift, each element of ctrls, initial and target_DP
   have shape (4, 4), and so the generator combined from the drift and the
   controls, and that generator acting on the initial operator, have the
   shape of the target. *)
C11_OperatorsAreD2xD2 ==
    LET d == ns.Si.rows
        D == <<d * d, d * d>>
    IN  /\ D = <<4, 4>>
        /\ Shape(ns.drift) = D
        /\ \A j \in 1 .. Len(ns.ctrls) : Shape(ns.ctrls[j]) = D
        /\ Shape(ns.initial) = D
        /\ Shape(ns.target_DP) = D
        /\ dyn_gen.amps # <<>> =>
              /\ Shape(dyn_gen.G) = Shape(ns.target_DP)
              /\ Shape(dyn_gen.evo) = Shape(ns.target_DP)

\* a generator has been combined with both controls switched on, and has acted
\* on the initial operator
C11_Witness ==
    /\ dyn_gen.amps = <<1, -1>>
    /\ ns.gamma = gamma
    /\ Shape(dyn_gen.G) = <<4, 4>>
    /\ QEq(dyn_gen.evo, dyn_gen.G)

\* row 0 plus row 3 of a 4 x 4 matrix is the zero row: the trace rho_00 +
\* rho_11 of the vectorised density operator is not changed
TracePreserving(A) ==
    \A j \in 0 .. A.cols - 1 : CAdd(A.data[0][j], A.data[3][j]) = CInt(0)

(* C15: the dynamics preserve the trace.  For every damping rate gamma and
   every pair of amplitudes (u_z, u_x), the generator G = drift + u_z * LC_z
   + u_x * LC_x has a zero sum of row 0 and row 3; so have the drift, LC_z
   and LC_x each, and so has G after any sequence of amplitude updates. *)
C15_TracePreserving ==
    /\ TracePreserving(ns.drift)
    /\ TracePreserving(ns.LC_z)
    /\ TracePreserving(ns.LC_x)
    /\ ns.ctrls = <<ns.LC_z, ns.LC_x>>
    /\ dyn_gen.amps # <<>> =>
          /\ QEq(dyn_gen.G,
                 QAdd(QAdd(ns.drift, QScale(CInt(dyn_gen.amps[1]), ns.LC_z)),
                      QScale(CInt(dyn_gen.amps[2]), ns.LC_x)))
          /\ TracePreserving(dyn_gen.G)

\* a generator with damping and both controls at work: its rows 0 and 3 are
\* not zero
C15_Witness ==
    /\ dyn_gen.amps = <<-2, 3>>
    /\ ns.gamma.n = 2
    /\ dyn_gen.G.data[0][0] # CInt(0)
    /\ dyn_gen.G.data[0][1] # CInt(0)
    /\ dyn_gen.G.data[3][1] # CInt(0)

=============================================================================
